---- MODULE Spec2Model ----
(***************************************************************************)
(* State-machine model of the PandaBot codex inspection scripts:           *)
(*   find_crafting.py   - connect on port 5432, fall back to port 6543,    *)
(*                        run the gameplayTags containment query           *)
(*   sample_data.py     - connect on port 6543, count, sample, and count   *)
(*                        per distinct section                             *)
(*   sample_data_api.py - the same sampling through the REST gateway       *)
(* Each script is a straight-line module body; an action is one statement  *)
(* (or one except/finally block) of it, and pc / rpc is the position.      *)
(***************************************************************************)
EXTENDS Integers, Sequences, FiniteSets, TLC

VARIABLES
    store,      \* rows of public.codex, in the store's scan order
    net,        \* per port: "ok", or the reason a connect to it fails
    pc,         \* position of the psycopg2 script
    conn,       \* the module-level name `conn`: the handle it is bound to, 0 = unbound
    cur,        \* the module-level name `cur`: the handle its cursor belongs to
    opened,     \* handles psycopg2.connect returned, in order
    closes,     \* per handle: number of conn.close() calls
    attempts,   \* connect attempts made, in order: [port, ok]
    report,     \* failure lines printed: [port, reason]
    e,          \* the exception being handled: [type, reason, origin]
    queries,    \* every cur.execute issued: [on, sql, arg, live]
    rows,       \* result of cur.fetchall() for the record query
    sections,   \* result of the DISTINCT section query
    count,      \* result of the latest COUNT( * ) fetch
    freq,       \* "<section>: <count> entries" lines printed by sample_data
    idx,        \* position of the `for section in sections` loop
    outcome,    \* how the psycopg2 script ended
    exitCode,   \* its exit status, -1 while running
    rpc,        \* position of the REST script
    requests,   \* every requests.get issued
    status,     \* status_code of the latest response
    data,       \* parsed body of the sample request
    restSections \* the `sections` dict tallied by the REST script

vars == <<store, net, pc, conn, cur, opened, closes, attempts, report, e, queries,
          rows, sections, count, freq, idx, outcome, exitCode,
          rpc, requests, status, data, restSections>>

restVars == <<rpc, requests, status, data, restSections>>

----------------------------------------------------------------------------
(* Bounds of the model *)

MaxRows == 7
MaxSampleRows == 4

(* Literals of the scripts *)

Port5432 == 5432
Port6543 == 6543
TagLimit == 5
SampleLimit == 5

Ports == {Port5432, Port6543}

NULL == "<NULL>"
TagLiteral == "Artisanship.Crafting"
ItemsSection == "items"

(* Reasons a connect attempt fails; psycopg2 raises OperationalError for each *)
ConnectFailures == {"timeout", "auth rejected"}
NetStates == {"ok"} \cup ConnectFailures

NoError == [type |-> "none", reason |-> "none", origin |-> "none"]

----------------------------------------------------------------------------
(* Sequence helpers *)

Min(a, b) == IF a <= b THEN a ELSE b

SeqSet(s) == {s[i] : i \in 1..Len(s)}

Take(s, n) == SubSeq(s, 1, Min(n, Len(s)))

----------------------------------------------------------------------------
(* The store: rows of public.codex(guid, section, data) *)

ArrayOf(elems) == [kind |-> "array", elems |-> elems]
StringOf(s) == [kind |-> "string", elems |-> <<s>>]
Absent == [kind |-> "absent", elems |-> <<>>]

Doc(tags) == [valid |-> TRUE, gameplayTags |-> tags]
BadDoc == [valid |-> FALSE, gameplayTags |-> Absent]

(* Row contents the tag search is tried on: a match, an items row whose tags
   only resemble the literal, a match in another section, and an items row
   whose gameplayTags is the literal itself but not an array. *)
CraftingKinds ==
    { [section |-> ItemsSection, data |-> Doc(ArrayOf(<<TagLiteral, "Common">>))],
      [section |-> ItemsSection,
       data |-> Doc(ArrayOf(<<"Crafting", "artisanship.crafting",
                              "Artisanship.Crafting.Advanced">>))],
      [section |-> "recipes", data |-> Doc(ArrayOf(<<TagLiteral>>))],
      [section |-> ItemsSection, data |-> Doc(StringOf(TagLiteral))] }

SampleKinds ==
    { [section |-> ItemsSection, data |-> Doc(ArrayOf(<<TagLiteral>>))],
      [section |-> "recipes", data |-> Doc(Absent)],
      [section |-> NULL, data |-> Doc(Absent)],
      [section |-> ItemsSection, data |-> BadDoc] }

WithGuids(kinds) ==
    [i \in 1..Len(kinds) |->
        [guid |-> i, section |-> kinds[i].section, data |-> kinds[i].data]]

(* The table holds any number of rows up to maxLen, each of one of the kinds *)
StoreHolds(kinds, maxLen) ==
    \E n \in 0..maxLen : \E k \in [1..n -> kinds] : store = WithGuids(k)

(* Collation of the section column: ORDER BY section, NULLs last *)
SectionOrder == <<ItemsSection, "recipes", NULL>>

----------------------------------------------------------------------------
(* SQL semantics of the queries the scripts send *)

(* a = b in SQL: unknown, hence not true, when either side is NULL *)
SqlEq(a, b) == a # NULL /\ b # NULL /\ a = b

(* Containment that also accepts an element extending the literal *)
JsonbContainsPrefixMatch(lhs, elems) ==
    /\ lhs.kind = "array"
    /\ \A j \in 1..Len(elems) :
          \E i \in 1..Len(lhs.elems) :
              lhs.elems[i] \in {elems[j], elems[j] \o ".Advanced"}

(* jsonb: lhs @> '[e1, ...]'::jsonb. NULL (key absent) and a scalar lhs do not
   contain an array; an array contains it when every element of the right side
   equals one of its own elements. *)
JsonbContains(lhs, elems) ==
    /\ lhs.kind = "array"
    /\ \A j \in 1..Len(elems) : \E i \in 1..Len(lhs.elems) : lhs.elems[i] = elems[j]

(* WHERE section = 'items' AND data->'gameplayTags' @> '["Artisanship.Crafting"]' *)
TagPredicate(row) ==
    /\ SqlEq(row.section, ItemsSection)
    /\ JsonbContains(row.data.gameplayTags, <<TagLiteral>>)

(* SELECT guid, section, data ... WHERE ... LIMIT 5 *)
TagQuery(s) == Take(SelectSeq(s, TagPredicate), TagLimit)

(* SELECT DISTINCT section FROM public.codex ORDER BY section *)
DistinctSections(s) ==
    LET present(v) == \E i \in 1..Len(s) : s[i].section = v
    IN  SelectSeq(SectionOrder, present)

(* SELECT COUNT( * ) FROM public.codex *)
CountAll(s) == Len(s)

(* A count that drops the WHERE clause *)
CountIgnoringSection(s, v) == Len(s)

(* SELECT COUNT( * ) FROM public.codex WHERE section = %s *)
CountWhereSection(s, v) ==
    LET hit(row) == SqlEq(row.section, v)
    IN  Len(SelectSeq(s, hit))

----------------------------------------------------------------------------
(* Handles *)

Live == {h \in SeqSet(opened) : closes[h] = 0}

Query(sql, arg) == [on |-> cur, sql |-> sql, arg |-> arg, live |-> cur \in Live]

Raise(type, reason, origin) == [type |-> type, reason |-> reason, origin |-> origin]

(* psycopg2.connect(port=p): a handle, or OperationalError with the reason *)
ConnectOk(p) == net[p] = "ok"

----------------------------------------------------------------------------
(* find_crafting.py *)

(* L9-19: conn = psycopg2.connect(port=5432); cur = conn.cursor() *)
FindCrafting_Connect5432 ==
    /\ pc = "fc_connect5432"
    /\ attempts' = Append(attempts, [port |-> Port5432, ok |-> ConnectOk(Port5432)])
    /\ \/ /\ ConnectOk(Port5432)
          /\ conn' = Port5432
          /\ cur' = Port5432
          /\ opened' = Append(opened, Port5432)
          /\ pc' = "fc_execute_tag"
          /\ UNCHANGED e
       \/ /\ ~ConnectOk(Port5432)
          /\ e' = Raise("OperationalError", net[Port5432], "connect")
          /\ pc' = "fc_except_operational"
          /\ UNCHANGED <<conn, cur, opened>>
    /\ UNCHANGED <<store, net, closes, report, queries, rows, sections, count, freq,
                   idx, outcome, exitCode>>
    /\ UNCHANGED restVars

(* L31: cur.execute(query). The store may fail the statement: a lost connection
   raises OperationalError, a rejected statement another psycopg2.Error. *)
FindCrafting_ExecuteTag ==
    /\ pc = "fc_execute_tag"
    /\ queries' = Append(queries, Query("tag", TagLiteral))
    /\ \/ /\ pc' = "fc_fetch_tag"
          /\ UNCHANGED e
       \/ /\ e' = Raise("OperationalError", "connection lost", "execute")
          /\ pc' = "fc_except_operational"
       \/ /\ e' = Raise("ProgrammingError", "statement rejected", "execute")
          /\ pc' = "fc_except_exception"
    /\ UNCHANGED <<store, net, conn, cur, opened, closes, attempts, report, rows,
                   sections, count, freq, idx, outcome, exitCode>>
    /\ UNCHANGED restVars

(* L32-53: rows = cur.fetchall(); print each row *)
FindCrafting_FetchTag ==
    /\ pc = "fc_fetch_tag"
    /\ rows' = TagQuery(store)
    /\ pc' = "fc_execute_distinct"
    /\ UNCHANGED <<store, net, conn, cur, opened, closes, attempts, report, e, queries,
                   sections, count, freq, idx, outcome, exitCode>>
    /\ UNCHANGED restVars

(* L57: cur.execute("SELECT DISTINCT section ...") *)
FindCrafting_ExecuteDistinct ==
    /\ pc = "fc_execute_distinct"
    /\ queries' = Append(queries, Query("distinct", NULL))
    /\ \/ /\ pc' = "fc_fetch_distinct"
          /\ UNCHANGED e
       \/ /\ e' = Raise("OperationalError", "connection lost", "execute")
          /\ pc' = "fc_except_operational"
       \/ /\ e' = Raise("ProgrammingError", "statement rejected", "execute")
          /\ pc' = "fc_except_exception"
    /\ UNCHANGED <<store, net, conn, cur, opened, closes, attempts, report, rows,
                   sections, count, freq, idx, outcome, exitCode>>
    /\ UNCHANGED restVars

(* L58-64: sections = cur.fetchall(); print; cur.close(); conn.close() *)
FindCrafting_FetchDistinctAndClose ==
    /\ pc = "fc_fetch_distinct"
    /\ sections' = DistinctSections(store)
    /\ closes' = [closes EXCEPT ![conn] = @ + 1]
    /\ outcome' = "completed"
    /\ exitCode' = 0
    /\ pc' = "done"
    /\ UNCHANGED <<store, net, conn, cur, opened, attempts, report, e, queries, rows,
                   count, freq, idx>>
    /\ UNCHANGED restVars

(* Failure lines that print the second error for both ports *)
FallbackReportSameReason(first, second) ==
    <<[port |-> Port5432, reason |-> second], [port |-> Port6543, reason |-> second]>>

(* L67 and L83: the two failure lines, "Connection failed on port 5432: {e}"
   and "Connection also failed on port 6543: {e2}" *)
FallbackReport(first, second) ==
    <<[port |-> Port5432, reason |-> first], [port |-> Port6543, reason |-> second]>>

(* L66-80: except psycopg2.OperationalError as e: print the port-5432 failure,
   then conn = psycopg2.connect(port=6543); on success the script ends there.
   L82-95: except Exception as e2: print, sys.exit(1). *)
FindCrafting_ExceptOperational ==
    /\ pc = "fc_except_operational"
    /\ attempts' = Append(attempts, [port |-> Port6543, ok |-> ConnectOk(Port6543)])
    /\ \/ /\ ConnectOk(Port6543)
          /\ report' = Append(report, [port |-> Port5432, reason |-> e.reason])
          /\ conn' = Port6543
          /\ opened' = Append(opened, Port6543)
          /\ outcome' = "connected on fallback"
          /\ exitCode' = 0
       \/ /\ ~ConnectOk(Port6543)
          /\ report' = report \o FallbackReport(e.reason, net[Port6543])
          /\ outcome' = "ConnectionExhausted"
          /\ exitCode' = 1
          /\ UNCHANGED <<conn, opened>>
    /\ pc' = "done"
    /\ UNCHANGED <<store, net, cur, closes, e, queries, rows, sections, count, freq, idx>>
    /\ UNCHANGED restVars

(* L97-101: except Exception as e: print, traceback, sys.exit(1) *)
FindCrafting_ExceptException ==
    /\ pc = "fc_except_exception"
    /\ outcome' = "unexpected error"
    /\ exitCode' = 1
    /\ pc' = "done"
    /\ UNCHANGED <<store, net, conn, cur, opened, closes, attempts, report, e, queries,
                   rows, sections, count, freq, idx>>
    /\ UNCHANGED restVars

----------------------------------------------------------------------------
(* sample_data.py *)

(* Exceptions cur.execute raises when the store fails a statement *)
QueryErrors ==
    { Raise("OperationalError", "connection lost", "execute"),
      Raise("ProgrammingError", "statement rejected", "execute") }

(* SELECT guid, section, data FROM public.codex LIMIT 5 *)
SampleQuery(s) == Take(s, SampleLimit)

AllValid(batch) == \A i \in 1..Len(batch) : batch[i].data.valid

(* L9-22: conn = psycopg2.connect(port=6543); except Exception: print,
   sys.exit(1); cur = conn.cursor() *)
SampleData_Connect ==
    /\ pc = "sd_connect"
    /\ attempts' = Append(attempts, [port |-> Port6543, ok |-> ConnectOk(Port6543)])
    /\ \/ /\ ConnectOk(Port6543)
          /\ conn' = Port6543
          /\ cur' = Port6543
          /\ opened' = Append(opened, Port6543)
          /\ pc' = "sd_execute_count"
          /\ UNCHANGED <<report, outcome, exitCode>>
       \/ /\ ~ConnectOk(Port6543)
          /\ report' = Append(report, [port |-> Port6543, reason |-> net[Port6543]])
          /\ outcome' = "ConnectionExhausted"
          /\ exitCode' = 1
          /\ pc' = "done"
          /\ UNCHANGED <<conn, cur, opened>>
    /\ UNCHANGED <<store, net, closes, e, queries, rows, sections, count, freq, idx>>
    /\ UNCHANGED restVars

(* cur.execute(sql, args) inside the try block of L24: the next statement, or
   the except block of L57 *)
SampleData_Execute(at, sql, arg, next) ==
    /\ pc = at
    /\ queries' = Append(queries, Query(sql, arg))
    /\ \/ /\ pc' = next
          /\ UNCHANGED e
       \/ /\ e' \in QueryErrors
          /\ pc' = "sd_except"
    /\ UNCHANGED <<store, net, conn, cur, opened, closes, attempts, report, rows,
                   sections, count, freq, idx, outcome, exitCode>>
    /\ UNCHANGED restVars

(* L27: cur.execute("SELECT COUNT( * ) FROM public.codex") *)
SampleData_ExecuteCount ==
    SampleData_Execute("sd_execute_count", "count", NULL, "sd_fetch_count")

(* L28-29: count = cur.fetchone()[0] *)
SampleData_FetchCount ==
    /\ pc = "sd_fetch_count"
    /\ count' = CountAll(store)
    /\ pc' = "sd_execute_sample"
    /\ UNCHANGED <<store, net, conn, cur, opened, closes, attempts, report, e, queries,
                   rows, sections, freq, idx, outcome, exitCode>>
    /\ UNCHANGED restVars

(* L32: cur.execute("SELECT guid, section, data FROM public.codex LIMIT 5") *)
SampleData_ExecuteSample ==
    SampleData_Execute("sd_execute_sample", "sample", NULL, "sd_fetch_sample")

(* L33-44: rows = cur.fetchall(); print each row. fetchall decodes the whole
   batch before the script sees any row: with a payload that does not parse, a
   json-typed column makes the typecaster raise out of fetchall (rows is never
   assigned), and a text-typed column is handed over undecoded. *)
SampleData_FetchSample ==
    /\ pc = "sd_fetch_sample"
    /\ \/ /\ AllValid(SampleQuery(store))
          /\ rows' = SampleQuery(store)
          /\ pc' = "sd_execute_distinct"
          /\ UNCHANGED e
       \/ /\ ~AllValid(SampleQuery(store))
          /\ e' = Raise("ValueError", "payload does not parse", "fetchall")
          /\ pc' = "sd_except"
          /\ UNCHANGED rows
       \/ /\ ~AllValid(SampleQuery(store))
          /\ rows' = SampleQuery(store)
          /\ pc' = "sd_execute_distinct"
          /\ UNCHANGED e
    /\ UNCHANGED <<store, net, conn, cur, opened, closes, attempts, report, queries,
                   sections, count, freq, idx, outcome, exitCode>>
    /\ UNCHANGED restVars

(* L48: cur.execute("SELECT DISTINCT section FROM public.codex ORDER BY section") *)
SampleData_ExecuteDistinct ==
    SampleData_Execute("sd_execute_distinct", "distinct", NULL, "sd_fetch_distinct")

(* L49-51: sections = cur.fetchall() *)
SampleData_FetchDistinct ==
    /\ pc = "sd_fetch_distinct"
    /\ sections' = DistinctSections(store)
    /\ idx' = 1
    /\ pc' = "sd_loop"
    /\ UNCHANGED <<store, net, conn, cur, opened, closes, attempts, report, e, queries,
                   rows, count, freq, outcome, exitCode>>
    /\ UNCHANGED restVars

(* L52-53: for section in sections:
             cur.execute("SELECT COUNT( * ) ... WHERE section = %s", (section[0],)) *)
SampleData_LoopExecuteCount ==
    /\ idx <= Len(sections)
    /\ SampleData_Execute("sd_loop", "count_section", sections[idx], "sd_loop_fetch")

(* L54-55: count = cur.fetchone()[0]; print(f"{section[0]}: {count} entries") *)
SampleData_LoopFetchCount ==
    /\ pc = "sd_loop_fetch"
    /\ count' = CountWhereSection(store, sections[idx])
    /\ freq' = Append(freq, [section |-> sections[idx],
                             count |-> CountWhereSection(store, sections[idx])])
    /\ idx' = idx + 1
    /\ pc' = "sd_loop"
    /\ UNCHANGED <<store, net, conn, cur, opened, closes, attempts, report, e, queries,
                   rows, sections, outcome, exitCode>>
    /\ UNCHANGED restVars

(* L52: the loop is exhausted; the try block ends *)
SampleData_LoopEnd ==
    /\ pc = "sd_loop"
    /\ idx > Len(sections)
    /\ outcome' = "completed"
    /\ pc' = "sd_finally"
    /\ UNCHANGED <<store, net, conn, cur, opened, closes, attempts, report, e, queries,
                   rows, sections, count, freq, idx, exitCode>>
    /\ UNCHANGED restVars

(* L57-60: except Exception as e: print the error and the traceback *)
SampleData_Except ==
    /\ pc = "sd_except"
    /\ outcome' = "query error"
    /\ pc' = "sd_finally"
    /\ UNCHANGED <<store, net, conn, cur, opened, closes, attempts, report, e, queries,
                   rows, sections, count, freq, idx, exitCode>>
    /\ UNCHANGED restVars

(* L61-64: finally: cur.close(); conn.close(); the script ends, status 0 *)
SampleData_Finally ==
    /\ pc = "sd_finally"
    /\ closes' = [closes EXCEPT ![conn] = @ + 1]
    /\ exitCode' = 0
    /\ pc' = "done"
    /\ UNCHANGED <<store, net, conn, cur, opened, attempts, report, e, queries, rows,
                   sections, count, freq, idx, outcome>>
    /\ UNCHANGED restVars

----------------------------------------------------------------------------
(* sample_data_api.py *)

nativeVars == <<pc, conn, cur, opened, closes, attempts, report, e, queries, rows,
                sections, count, freq, idx, outcome, exitCode>>

(* Status codes the gateway answers with *)
StatusCodes == {200, 500}

(* L50-53: sections = {}; for record in all_records:
             section = record.get('section')
             sections[section] = sections.get(section, 0) + 1 *)
RECURSIVE TallySections(_, _)
TallySections(records, acc) ==
    IF records = <<>> THEN acc
    ELSE LET section == Head(records).section
             seen == IF section \in DOMAIN acc THEN acc[section] ELSE 0
         IN  TallySections(Tail(records),
                 [k \in DOMAIN acc \cup {section} |->
                     IF k = section THEN seen + 1 ELSE acc[k]])

(* L17-21: requests.get(".../rest/v1/codex?select=count"); print the status *)
Rest_GetCount ==
    /\ rpc = "rest_get_count"
    /\ requests' = Append(requests, "select=count")
    /\ status' \in StatusCodes
    /\ rpc' = "rest_get_sample"
    /\ UNCHANGED <<store, net, data, restSections>>
    /\ UNCHANGED nativeVars

(* L24-40: requests.get(".../rest/v1/codex?limit=5"); on 200 data =
   response.json() and each record is printed; L59-61 otherwise *)
Rest_GetSample ==
    /\ rpc = "rest_get_sample"
    /\ requests' = Append(requests, "limit=5")
    /\ status' \in StatusCodes
    /\ \/ /\ status' = 200
          /\ data' = SampleQuery(store)
          /\ rpc' = "rest_get_sections"
       \/ /\ status' # 200
          /\ rpc' = "rest_error"
          /\ UNCHANGED data
    /\ UNCHANGED <<store, net, restSections>>
    /\ UNCHANGED nativeVars

(* L43-53: requests.get(".../rest/v1/codex?select=section"); on 200 tally the
   section of every record *)
Rest_GetSections ==
    /\ rpc = "rest_get_sections"
    /\ requests' = Append(requests, "select=section")
    /\ status' \in StatusCodes
    /\ \/ /\ status' = 200
          /\ restSections' = TallySections(store, <<>>)
          /\ rpc' = "rest_tallied"
       \/ /\ status' # 200
          /\ rpc' = "rest_done"
          /\ UNCHANGED restSections
    /\ UNCHANGED <<store, net, data>>
    /\ UNCHANGED nativeVars

(* L55-58: for section, count in sorted(sections.items()): print. Python
   cannot order a None key against a str key: sorted raises TypeError when the
   dict holds both, and nothing catches it. *)
Rest_PrintSections ==
    /\ rpc = "rest_tallied"
    /\ rpc' = IF NULL \in DOMAIN restSections /\ DOMAIN restSections # {NULL}
              THEN "rest_crashed"
              ELSE "rest_done"
    /\ UNCHANGED <<store, net, requests, status, data, restSections>>
    /\ UNCHANGED nativeVars

(* L17, L24, L43: requests.get raises (gateway unreachable); nothing catches
   it and the script dies with the traceback *)
Rest_RequestFails ==
    /\ rpc \in {"rest_get_count", "rest_get_sample", "rest_get_sections"}
    /\ requests' = Append(requests, "failed")
    /\ rpc' = "rest_crashed"
    /\ UNCHANGED <<store, net, status, data, restSections>>
    /\ UNCHANGED nativeVars

----------------------------------------------------------------------------
(* Specifications *)

InitCommon ==
    /\ conn = 0
    /\ cur = 0
    /\ opened = <<>>
    /\ closes = [p \in Ports |-> 0]
    /\ attempts = <<>>
    /\ report = <<>>
    /\ e = NoError
    /\ queries = <<>>
    /\ rows = <<>>
    /\ sections = <<>>
    /\ count = 0
    /\ freq = <<>>
    /\ idx = 0
    /\ outcome = "running"
    /\ exitCode = -1
    /\ requests = <<>>
    /\ status = 0
    /\ data = <<>>
    /\ restSections = <<>>

InitFindCrafting ==
    /\ InitCommon
    /\ net \in [Ports -> NetStates]
    /\ StoreHolds(CraftingKinds, MaxRows)
    /\ pc = "fc_connect5432"
    /\ rpc = "off"

NextFindCrafting ==
    \/ FindCrafting_Connect5432
    \/ FindCrafting_ExecuteTag
    \/ FindCrafting_FetchTag
    \/ FindCrafting_ExecuteDistinct
    \/ FindCrafting_FetchDistinctAndClose
    \/ FindCrafting_ExceptOperational
    \/ FindCrafting_ExceptException

Spec == InitFindCrafting /\ [][NextFindCrafting]_vars

(* sample_data.py and sample_data_api.py, each run once against the same store *)
InitSample ==
    /\ InitCommon
    /\ net \in [{Port6543} -> NetStates]
    /\ StoreHolds(SampleKinds, MaxSampleRows)
    /\ pc = "sd_connect"
    /\ rpc = "rest_get_count"

NextSample ==
    \/ SampleData_Connect
    \/ SampleData_ExecuteCount
    \/ SampleData_FetchCount
    \/ SampleData_ExecuteSample
    \/ SampleData_FetchSample
    \/ SampleData_ExecuteDistinct
    \/ SampleData_FetchDistinct
    \/ SampleData_LoopExecuteCount
    \/ SampleData_LoopFetchCount
    \/ SampleData_LoopEnd
    \/ SampleData_Except
    \/ SampleData_Finally
    \/ Rest_GetCount
    \/ Rest_GetSample
    \/ Rest_GetSections
    \/ Rest_PrintSections
    \/ Rest_RequestFails

SpecSample == InitSample /\ [][NextSample]_vars

----------------------------------------------------------------------------
(* Properties of find_crafting.py, checked under Spec *)

(* The ordered candidate list of find_crafting.py *)
Candidates == <<Port5432, Port6543>>

Reachable == {i \in 1..Len(Candidates) : net[Candidates[i]] = "ok"}

FirstReachable == Candidates[CHOOSE i \in Reachable : \A j \in Reachable : i <= j]

(* C1: whenever some candidate is reachable, the handle the finished run holds
   is the one of the first reachable candidate in list order, and no candidate
   is attempted after an earlier candidate's connect attempt succeeded. *)
C1_FirstReachableNoLaterAttempt ==
    /\ (pc = "done" /\ Reachable # {}) => conn = FirstReachable
    /\ \A i, j \in 1..Len(attempts) : i < j => ~attempts[i].ok

(* C2: in every terminal state each handle that was opened has been closed
   exactly once. *)
C2_ClosedExactlyOnce ==
    pc = "done" => \A h \in SeqSet(opened) : closes[h] = 1

(* C3: at most one handle is live at any time, and every query was issued on
   a handle that was live when it was issued. *)
C3_OneLiveHandle ==
    /\ Cardinality(Live) <= 1
    /\ \A i \in 1..Len(queries) : queries[i].live

(* C4: when no candidate is reachable the run ends as ConnectionExhausted with
   exit status 1, having attempted every candidate exactly once in list order,
   and the failure lines name each candidate once with its own reason. *)
C4_ExhaustedReportsEveryCandidate ==
    (pc = "done" /\ Reachable = {}) =>
        /\ outcome = "ConnectionExhausted"
        /\ exitCode = 1
        /\ attempts = [i \in 1..Len(Candidates) |-> [port |-> Candidates[i], ok |-> FALSE]]
        /\ report = [i \in 1..Len(Candidates) |->
                        [port |-> Candidates[i], reason |-> net[Candidates[i]]]]
        /\ opened = <<>>
        /\ queries = <<>>

(* C4 witness: both candidates failed, for different reasons, and the run ended *)
C4_Witness ==
    /\ pc = "done"
    /\ Reachable = {}
    /\ net[Port5432] # net[Port6543]
    /\ Len(report) = 2

(* C5: once a statement has failed on an established connection the run makes
   no further connect attempt, issues no further statement, and ends as a
   failure (non-zero exit status). *)
C5_QueryFailureNotRetried ==
    e.origin = "execute" =>
        /\ Len(attempts) = 1
        /\ \A i \in 1..Len(queries) - 1 : queries[i].sql # queries[Len(queries)].sql
        /\ pc = "done" => exitCode = 1

(* A row the tag search is meant to return: section is exactly 'items' and
   gameplayTags is an array with an element equal to the literal *)
ExactTagMatch(row) ==
    /\ row.section = ItemsSection
    /\ row.data.gameplayTags.kind = "array"
    /\ TagLiteral \in SeqSet(row.data.gameplayTags.elems)

FetchedTagRows == pc = "fc_execute_distinct"

(* C8: the tag search returns only rows of the store whose section is 'items'
   and whose gameplayTags array has an element exactly equal to the literal, no
   row twice, at most LIMIT rows, as many as there are matches up to that
   limit, and with no match it yields the empty result and no error. *)
C8_TagContainmentExact ==
    /\ \A i \in 1..Len(rows) : rows[i] \in SeqSet(store) /\ ExactTagMatch(rows[i])
    /\ \A i, j \in 1..Len(rows) : rows[i].guid = rows[j].guid => i = j
    /\ Len(rows) <= TagLimit
    /\ FetchedTagRows =>
          /\ Len(rows) = Min(TagLimit, Cardinality({i \in 1..Len(store) : ExactTagMatch(store[i])}))
          /\ e = NoError

(* C8 witness: the store holds more matches than LIMIT, and the search
   returned LIMIT rows and passed over an items row whose tags only resemble
   the literal *)
C8_Witness ==
    /\ FetchedTagRows
    /\ Len(rows) = TagLimit
    /\ Cardinality({i \in 1..Len(store) : ExactTagMatch(store[i])}) > TagLimit
    /\ \E i \in 1..Len(store) :
          /\ store[i].section = ItemsSection
          /\ "Artisanship.Crafting.Advanced" \in SeqSet(store[i].data.gameplayTags.elems)
          /\ store[i] \notin SeqSet(rows)
          /\ \E k \in 1..Len(rows) : rows[k].guid > store[i].guid

----------------------------------------------------------------------------
(* Properties of sample_data.py and sample_data_api.py, checked under SpecSample *)

(* C6: a fetch never aborts because a payload of the batch does not parse, and
   the rows it hands over are exactly the rows of the batch that parse. *)
C6_MalformedRowIsolated ==
    /\ e.origin # "fetchall"
    /\ pc = "sd_execute_distinct" =>
          rows = SelectSeq(SampleQuery(store), LAMBDA row : row.data.valid)

CountSectionQueries == SelectSeq(queries, LAMBDA q : q.sql = "count_section")

RowsHaving(section) == {i \in 1..Len(store) : store[i].section = section}

(* C9: the per-section counting issues its count queries one at a time, each
   answered before the next is sent; when the loop is through it has issued
   exactly one count query per section of the set, in order, and printed one
   entry per section, whose count, for every section string, is the number of
   store rows having that section. *)
C9_OneCountPerSection ==
    /\ Len(CountSectionQueries) - Len(freq) \in {0, 1}
    /\ \A i \in 1..Len(freq) : freq[i].section = sections[i]
    /\ outcome = "completed" =>
          /\ Len(CountSectionQueries) = Len(sections)
          /\ \A i \in 1..Len(sections) : CountSectionQueries[i].arg = sections[i]
          /\ Len(freq) = Len(sections)
          /\ \A i \in 1..Len(freq) :
                freq[i].section # NULL =>
                    freq[i].count = Cardinality(RowsHaving(freq[i].section))

(* C9 witness: the loop went through two section strings with different counts *)
C9_Witness ==
    /\ outcome = "completed"
    /\ \E i, j \in 1..Len(freq) :
          /\ freq[i].section # NULL
          /\ freq[j].section # NULL
          /\ freq[i].count > freq[j].count

RECURSIVE SumCounts(_)
SumCounts(table) ==
    IF table = <<>> THEN 0 ELSE Head(table).count + SumCounts(Tail(table))

RestTallied == rpc \in {"rest_tallied", "rest_done"} /\ status = 200

(* C10: when both scripts have produced their section table for the same
   store, the tables have the same keys with the same count for each key, and
   the counts add up to the number of rows. *)
C10_NativeAndRestTablesAgree ==
    (outcome = "completed" /\ RestTallied) =>
        /\ {freq[i].section : i \in 1..Len(freq)} = DOMAIN restSections
        /\ \A i \in 1..Len(freq) : freq[i].count = restSections[freq[i].section]
        /\ SumCounts(freq) = CountAll(store)

====
